---- MODULE Spec2Model ----
(***************************************************************************)
(* Model of organizer_safe.py (Downloads Organizer, SafeFolders variant).  *)
(*                                                                         *)
(* Text is modelled as a sequence of one-character strings, so that        *)
(* str.replace, splitext, startswith, endswith and fnmatch are computed    *)
(* as the library computes them.  A path is the sequence of its parts;     *)
(* the current directory is the root, so "w/o" and "/w/o" resolve alike.   *)
(* The file system is a function from the existing paths to their nodes.   *)
(***************************************************************************)
EXTENDS Integers, Sequences, FiniteSets, TLC

VARIABLES
    cfg,        \* the mapping load_config returned (fixed for a run)
    fs,         \* the file system: path -> [kind, id, mtime]
    clock,      \* time.time(), in seconds from the model's epoch
    args,       \* argparse result of the running invocation of main
    pc,         \* where main / watch_loop / process_once stands
    pass,       \* process_once locals: now, dry, listing, idx, processed
    ret,        \* what the last finished pass of process_once returned
    last,       \* the file-system operation of the latest loop iteration
    made,       \* directories mkdir(parents=True) created under the watch dir
    passes,     \* number of passes started so far
    faults,     \* number of calls the operating system has failed so far
    fn,         \* pure-function harness: the function applied
    inp,        \* pure-function harness: its arguments
    out         \* pure-function harness: its result

vars == <<cfg, fs, clock, args, pc, pass, ret, last, made, passes, faults, fn, inp, out>>

\* ------------------------------------------------------------------ text

Max(a, b) == IF a >= b THEN a ELSE b

\* code-point order of the characters the model uses (ASCII)
CharOrder ==
    << "$", "%", "*", ".", "/", "0", "1", "2", "3", "4", "5", "6", "7", "8", "9",
       "?", "D", "F", "H", "M", "P", "T", "X", "Y", "_",
       "a", "b", "c", "d", "e", "f", "g", "h", "i", "k", "l", "m", "n", "o",
       "p", "r", "s", "t", "w", "x", "y", "z", "{", "}", "~" >>

Ord(c) == CHOOSE i \in 1..Len(CharOrder) : CharOrder[i] = c

\* str.__lt__
RECURSIVE StrLess(_, _)
StrLess(a, b) ==
    IF b = <<>> THEN FALSE
    ELSE IF a = <<>> THEN TRUE
    ELSE IF Head(a) = Head(b) THEN StrLess(Tail(a), Tail(b))
    ELSE Ord(Head(a)) < Ord(Head(b))

\* str.lower, one character
LowerChar(c) ==
    CASE c = "D" -> "d" [] c = "F" -> "f" [] c = "H" -> "h" [] c = "M" -> "m"
      [] c = "P" -> "p" [] c = "T" -> "t" [] c = "X" -> "x" [] c = "Y" -> "y"
      [] OTHER -> c

Lower(s) == [i \in 1..Len(s) |-> LowerChar(s[i])]

StartsWith(s, p) == Len(p) <= Len(s) /\ SubSeq(s, 1, Len(p)) = p

EndsWith(s, p) == Len(p) <= Len(s) /\ SubSeq(s, Len(s) - Len(p) + 1, Len(s)) = p

\* str.replace(k, v) for a non-empty k: leftmost, non-overlapping, one scan
RECURSIVE Replace(_, _, _)
Replace(s, k, v) ==
    IF Len(s) < Len(k) THEN s
    ELSE IF SubSeq(s, 1, Len(k)) = k
         THEN v \o Replace(SubSeq(s, Len(k) + 1, Len(s)), k, v)
         ELSE <<Head(s)>> \o Replace(Tail(s), k, v)

\* str.rfind(c): the last 1-based position of c in s, 0 when absent
RFind(s, c) ==
    LET hits == {i \in 1..Len(s) : s[i] = c}
    IN  IF hits = {} THEN 0 ELSE CHOOSE i \in hits : \A j \in hits : j <= i

\* str.lstrip(c)
RECURSIVE LStrip(_, _)
LStrip(s, c) == IF s # <<>> /\ Head(s) = c THEN LStrip(Tail(s), c) ELSE s

\* str.split(c)
RECURSIVE Split(_, _)
Split(s, c) ==
    LET hits == {i \in 1..Len(s) : s[i] = c}
    IN  IF hits = {} THEN <<s>>
        ELSE LET i == CHOOSE h \in hits : \A j \in hits : h <= j
             IN  <<SubSeq(s, 1, i - 1)>> \o Split(SubSeq(s, i + 1, Len(s)), c)

\* pathlib.PurePath.suffix: from the last dot, unless that dot leads or ends
Suffix(name) ==
    LET i == RFind(name, ".")
    IN  IF 1 < i /\ i < Len(name) THEN SubSeq(name, i, Len(name)) ELSE <<>>

\* pathlib.PurePath.stem
Stem(name) ==
    LET i == RFind(name, ".")
    IN  IF 1 < i /\ i < Len(name) THEN SubSeq(name, 1, i - 1) ELSE name

\* os.path.splitext: the extension starts at the last dot that follows a
\* character other than a leading dot
SplitExt(name) ==
    LET i == RFind(name, ".")
    IN  IF \E j \in 1..(i - 1) : name[j] # "."
        THEN [stem |-> SubSeq(name, 1, i - 1), ext |-> SubSeq(name, i, Len(name))]
        ELSE [stem |-> name, ext |-> <<>>]

\* str(int) for the small naturals the model meets
Digits == <<"0", "1", "2", "3", "4", "5", "6", "7", "8", "9">>

RECURSIVE IntToStr(_)
IntToStr(n) == IF n < 10 THEN <<Digits[n + 1]>> ELSE IntToStr(n \div 10) \o <<Digits[(n % 10) + 1]>>

\* ------------------------------------------------------------ match_rule

\* a rule of the configuration; a key the file leaves out is its r.get default
Rule(nm, exts, mimes, globs, all, to, ren, uniq) ==
    [name |-> nm, match_ext |-> exts, match_mime |-> mimes, match_glob |-> globs,
     match_all |-> all, to_dir |-> to, rename |-> ren, ensure_unique |-> uniq]

InSeq(x, seq) == \E i \in 1..Len(seq) : seq[i] = x

\* mimetypes.guess_type: a table keyed by the lower-cased os.path extension;
\* None is the empty text (both are falsy where the code tests them)
GuessType(name) ==
    LET ext == Lower(SplitExt(name).ext)
    IN  CASE ext = <<".", "t", "x", "t">> -> <<"t", "e", "x", "t", "/", "p", "l", "a", "i", "n">>
          [] ext = <<".", "p", "d", "f">> ->
                 <<"a", "p", "p", "l", "i", "c", "a", "t", "i", "o", "n", "/", "p", "d", "f">>
          [] OTHER -> <<>>

\* fnmatch.fnmatch on a POSIX build (normcase is the identity); patterns of
\* literal characters, "*" and "?"
RECURSIVE FnMatch(_, _)
FnMatch(name, pat) ==
    IF pat = <<>> THEN name = <<>>
    ELSE IF Head(pat) = "*"
         THEN \E k \in 0..Len(name) : FnMatch(SubSeq(name, k + 1, Len(name)), Tail(pat))
    ELSE IF name = <<>> THEN FALSE
    ELSE IF Head(pat) = "?" \/ Head(pat) = Head(name) THEN FnMatch(Tail(name), Tail(pat))
    ELSE FALSE

\* the body of the loop of match_rule for one rule: does the rule return?
RuleReturns(name, ext, mime, r) ==
    LET exts == [i \in 1..Len(r.match_ext) |-> Lower(r.match_ext[i])]
        mp == [i \in 1..Len(r.match_mime) |-> Lower(r.match_mime[i])]
    IN  IF exts # <<>> /\ InSeq(ext, exts) THEN TRUE
        ELSE IF mp # <<>> /\ mime # <<>>
                /\ (\E i \in 1..Len(mp) : StartsWith(Lower(mime), mp[i])) THEN TRUE
        ELSE IF \E i \in 1..Len(r.match_glob) : FnMatch(name, r.match_glob[i]) THEN TRUE
        ELSE r.match_all

\* match_rule with the loop run to its end: the last rule that matches
RECURSIVE MatchLoopLast(_, _, _, _, _)
MatchLoopLast(name, ext, mime, rules, i) ==
    IF i > Len(rules) THEN <<>>
    ELSE LET later == MatchLoopLast(name, ext, mime, rules, i + 1)
         IN  IF later # <<>> THEN later
             ELSE IF RuleReturns(name, ext, mime, rules[i]) THEN <<rules[i]>>
             ELSE <<>>

\* the result is <<r>> for "return r" and <<>> for "return None"
RECURSIVE MatchLoop(_, _, _, _, _)
MatchLoop(name, ext, mime, rules, i) ==
    IF i > Len(rules) THEN <<>>
    ELSE IF RuleReturns(name, ext, mime, rules[i]) THEN <<rules[i]>>
    ELSE MatchLoop(name, ext, mime, rules, i + 1)

match_rule(name, rules) ==
    MatchLoop(name, LStrip(Lower(Suffix(name)), "."), GuessType(name), rules, 1)

\* ---------------------------------------------------------- expand_path

\* datetime.now() at clock t: the model's epoch is 2025-12-31 23:59:58
Now(t) ==
    IF t < 2
    THEN [Y |-> <<"2", "0", "2", "5">>, M |-> <<"1", "2">>, D |-> <<"3", "1">>,
          h |-> <<"2", "3">>, m |-> <<"5", "9">>, s |-> <<"5", Digits[t + 9]>>]
    ELSE [Y |-> <<"2", "0", "2", "6">>, M |-> <<"0", "1">>, D |-> <<"0", "1">>,
          h |-> <<"0", "0">>, m |-> <<"0", "0">>,
          s |-> <<Digits[((t - 2) \div 10) + 1], Digits[((t - 2) % 10) + 1]>>]

\* dt.strftime("%Y%m%d") and dt.strftime("%H%M%S")
StrfDate(dt) == dt.Y \o dt.M \o dt.D
StrfTime(dt) == dt.h \o dt.m \o dt.s

\* for k, v in repl.items(): s = s.replace(k, v)   (dict order)
RECURSIVE ReplaceAll(_, _)
ReplaceAll(s, repl) ==
    IF repl = <<>> THEN s
    ELSE ReplaceAll(Replace(s, Head(repl)[1], Head(repl)[2]), Tail(repl))

\* the process environment: HOME, the one variable the templates may name
HomeDir == <<"/", "h">>

\* os.path.expandvars (POSIX): $H is the model's only variable
ExpandVars(p) == Replace(p, <<"$", "H">>, HomeDir)

\* os.path.expanduser: a leading "~" alone or before "/"
ExpandUser(p) ==
    IF p # <<>> /\ Head(p) = "~" /\ (Len(p) = 1 \/ p[2] = "/")
    THEN HomeDir \o Tail(p)
    ELSE p

\* Path(p), resolved: the parts of p ("." and empty parts dropped)
PathOf(p) == SelectSeq(Split(p, "/"), LAMBDA x : x # <<>> /\ x # <<".">>)

expand_path(p, dt) ==
    LET repl == << <<<<"{", "Y", "Y", "Y", "Y", "}">>, dt.Y>>,
                   <<<<"{", "M", "M", "}">>, dt.M>>,
                   <<<<"{", "D", "D", "}">>, dt.D>>,
                   <<<<"{", "d", "a", "t", "e", "}">>, StrfDate(dt)>>,
                   <<<<"{", "t", "i", "m", "e", "}">>, StrfTime(dt)>> >>
    IN  PathOf(ExpandUser(ExpandVars(ReplaceAll(p, repl))))

\* ---------------------------------------------------- build_target_name

\* for bad in '<>:"/\\|?*': name = name.replace(bad, "_")
BadChars == {"<", ">", ":", "\"", "/", "\\", "|", "?", "*"}

build_target_name(src_name, rule, dt, counter) ==
    LET stem == Stem(src_name)
        ext == LStrip(Lower(Suffix(src_name)), ".")
        repl == << <<<<"{", "s", "t", "e", "m", "}">>, stem>>,
                   <<<<"{", "e", "x", "t", "}">>, ext>>,
                   <<<<"{", "d", "a", "t", "e", "}">>, StrfDate(dt)>>,
                   <<<<"{", "t", "i", "m", "e", "}">>, StrfTime(dt)>>,
                   <<<<"{", "c", "o", "u", "n", "t", "e", "r", "}">>,
                     IF counter # 0 THEN IntToStr(counter) ELSE <<>> >> >>
        tmpl == IF rule.rename # <<>> THEN rule.rename ELSE <<"{", "s", "t", "e", "m", "}">>
        name == ReplaceAll(tmpl, repl)
        clean == [i \in 1..Len(name) |-> IF name[i] \in BadChars THEN "_" ELSE name[i]]
    IN  clean \o (IF ext # <<>> THEN <<".">> \o ext ELSE <<>>)

\* ------------------------------------------------------ the file system

Parent(p) == SubSeq(p, 1, Len(p) - 1)
Name(p) == p[Len(p)]

\* a in b.parents
IsAncestor(a, b) == Len(a) < Len(b) /\ SubSeq(b, 1, Len(a)) = a

Exists(f, p) == p \in DOMAIN f
IsDir(f, p) == Exists(f, p) /\ f[p].kind = "dir"
IsFile(f, p) == Exists(f, p) /\ f[p].kind = "file"

\* the names of watch_dir.iterdir()
ChildNames(f, d) == {Name(q) : q \in {x \in DOMAIN f : Len(x) = Len(d) + 1 /\ Parent(x) = d}}

\* sorted(...) of a set of names
RECURSIVE Sorted(_)
Sorted(S) ==
    IF S = {} THEN <<>>
    ELSE LET lo == CHOOSE x \in S : \A y \in S \ {x} : StrLess(x, y)
         IN  <<lo>> \o Sorted(S \ {lo})

Node(k, i, t) == [kind |-> k, id |-> i, mtime |-> t]

\* f with the nodes of g added or replaced
Put(f, g) == [q \in DOMAIN f \cup DOMAIN g |-> IF q \in DOMAIN g THEN g[q] ELSE f[q]]

\* f without the paths of R
Drop(f, R) == [q \in DOMAIN f \ R |-> f[q]]

\* the directory d was written to at time t (an entry added or removed)
Touched(f, d, t) == IF Exists(f, d) THEN [f EXCEPT ![d].mtime = t] ELSE f

\* Path.mkdir(parents=True, exist_ok=True) at time t:
\* raises when p or one of its ancestors is a file, creates what is missing
Mkdir(f, p, t) ==
    LET prefixes == {SubSeq(p, 1, n) : n \in 0..Len(p)}
        missing == {q \in prefixes : ~Exists(f, q)}
        blocked == \E q \in prefixes : IsFile(f, q)
        top == CHOOSE q \in missing : \A r \in missing : Len(q) <= Len(r)
    IN  IF blocked THEN [ok |-> FALSE, fs |-> f, made |-> {}]
        ELSE IF missing = {} THEN [ok |-> TRUE, fs |-> f, made |-> {}]
        ELSE [ok |-> TRUE,
              fs |-> Touched(Put(f, [q \in missing |-> Node("dir", 0, t)]), Parent(top), t),
              made |-> missing]

\* os.rename(src, dst) at time t (POSIX): src and all below it go to dst,
\* an existing file at dst is replaced, renaming a path to itself does nothing
Rename(f, src, dst, t) ==
    IF src = dst THEN f
    ELSE LET sub == {q \in DOMAIN f : q = src \/ IsAncestor(src, q)}
             gone == sub \cup {q \in DOMAIN f : q = dst \/ IsAncestor(dst, q)}
             moved == [q \in {dst \o SubSeq(x, Len(src) + 1, Len(x)) : x \in sub} |->
                          f[src \o SubSeq(q, Len(dst) + 1, Len(q))]]
         IN  Touched(Touched(Put(Drop(f, gone), moved), Parent(src), t), Parent(dst), t)

\* shutil.move(src, dst) at time t: into dst when dst is a directory (an error
\* when the name is taken there), an error when dst lies inside src
ShutilMove(f, src, dst, t) ==
    LET real_dst == IF IsDir(f, dst) THEN dst \o <<Name(src)>> ELSE dst
    IN  IF ~Exists(f, src) THEN [ok |-> FALSE, fs |-> f]
        ELSE IF IsDir(f, dst) /\ src = dst THEN [ok |-> TRUE, fs |-> f]
        ELSE IF IsDir(f, dst) /\ Exists(f, real_dst) THEN [ok |-> FALSE, fs |-> f]
        ELSE IF IsAncestor(src, real_dst) THEN [ok |-> FALSE, fs |-> f]
        ELSE IF IsDir(f, src) /\ IsFile(f, real_dst) THEN [ok |-> FALSE, fs |-> f]
        ELSE [ok |-> TRUE, fs |-> Rename(f, src, real_dst, t)]

\* Path.touch(exist_ok=True) at time t
Touch(f, p, t) ==
    IF Exists(f, p) THEN [ok |-> TRUE, fs |-> [f EXCEPT ![p].mtime = t]]
    ELSE IF ~IsDir(f, Parent(p)) THEN [ok |-> FALSE, fs |-> f]
    ELSE [ok |-> TRUE, fs |-> Touched(Put(f, [q \in {p} |-> Node("file", 0, t)]), Parent(p), t)]

\* ------------------------------------------------------------- helpers
\* An argument io names the one call of the iteration that the operating
\* system fails ("mkdir", "move", "touch"), or "ok" when it fails none.

\* is_candidate_file with "age > min_age_sec" for its last line
is_candidate_file_strict(f, g, t, path, min_age_sec, ignore_ext, ignore_names) ==
    IF ~IsFile(f, path) THEN FALSE
    ELSE IF InSeq(Name(path), ignore_names) THEN FALSE
    ELSE IF \E i \in 1..Len(ignore_ext) : EndsWith(Lower(Name(path)), Lower(ignore_ext[i]))
         THEN FALSE
    ELSE IF ~Exists(g, path) THEN FALSE
    ELSE t - g[path].mtime > min_age_sec

\* is_candidate_file, lines 91-102: path.is_file() reads the file system f,
\* path.stat() reads g, the file system a moment later (FileNotFoundError
\* when the path is gone by then, which the function catches)
is_candidate_file_stat(f, g, t, path, min_age_sec, ignore_ext, ignore_names) ==
    IF ~IsFile(f, path) THEN FALSE
    ELSE IF InSeq(Name(path), ignore_names) THEN FALSE
    ELSE IF \E i \in 1..Len(ignore_ext) : EndsWith(Lower(Name(path)), Lower(ignore_ext[i]))
         THEN FALSE
    ELSE IF ~Exists(g, path) THEN FALSE
    ELSE t - g[path].mtime >= min_age_sec

\* is_candidate_file when nothing else writes between is_file() and stat()
is_candidate_file(f, t, path, min_age_sec, ignore_ext, ignore_names) ==
    is_candidate_file_stat(f, f, t, path, min_age_sec, ignore_ext, ignore_names)

is_candidate_dir(f, t, path, min_age_sec) ==
    IF ~IsDir(f, path) THEN FALSE
    ELSE t - f[path].mtime >= min_age_sec

\* process_once without its call of mark_managed_dir
mark_managed_dir_never(f, t, dst_dir, marker_name, io) == f

\* the exception of touch is swallowed: the file system is all that is left
mark_managed_dir(f, t, dst_dir, marker_name, io) ==
    IF io = "touch" THEN f ELSE Touch(f, dst_dir \o <<marker_name>>, t).fs

is_managed_dir(f, path, marker_name) == Exists(f, path \o <<marker_name>>)

\* while candidate.exists(): i += 1; candidate = dst_dir / f"{stem}_{i}{ext}"
RECURSIVE ProbeFile(_, _, _, _, _)
ProbeFile(f, dst_dir, stem, ext, i) ==
    LET candidate == dst_dir \o <<stem \o <<"_">> \o IntToStr(i) \o ext>>
    IN  IF Exists(f, candidate) THEN ProbeFile(f, dst_dir, stem, ext, i + 1) ELSE candidate

\* move_with_unique with ensure_unique read as false
file_candidate_plain(f, dst_dir, target_name, ensure_unique) == dst_dir \o <<target_name>>

\* move_with_unique with "if candidate.exists()" for "while candidate.exists()"
file_candidate_once(f, dst_dir, target_name, ensure_unique) ==
    LET candidate == dst_dir \o <<target_name>>
        se == SplitExt(target_name)
    IN  IF ensure_unique /\ Exists(f, candidate)
        THEN dst_dir \o <<se.stem \o <<"_", "1">> \o se.ext>>
        ELSE candidate

\* lines 124-130: the path move_with_unique moves to
file_candidate(f, dst_dir, target_name, ensure_unique) ==
    LET candidate == dst_dir \o <<target_name>>
        se == SplitExt(target_name)
    IN  IF ensure_unique /\ Exists(f, candidate)
        THEN ProbeFile(f, dst_dir, se.stem, se.ext, 1)
        ELSE candidate

move_with_unique(f, t, src, dst_dir, target_name, ensure_unique, io) ==
    LET mk == IF io = "mkdir" THEN [ok |-> FALSE, fs |-> f, made |-> {}] ELSE Mkdir(f, dst_dir, t)
        candidate == file_candidate(mk.fs, dst_dir, target_name, ensure_unique)
        mv == IF io = "move" THEN [ok |-> FALSE, fs |-> mk.fs] ELSE ShutilMove(mk.fs, src, candidate, t)
    IN  IF ~mk.ok THEN [ok |-> FALSE, fs |-> f, made |-> {}, target |-> <<>>]
        ELSE [ok |-> mv.ok, fs |-> mv.fs, made |-> mk.made, target |-> candidate]

\* while candidate.exists(): i += 1; candidate = dst_dir / f"{src.name}_{i}"
RECURSIVE ProbeDir(_, _, _, _)
ProbeDir(f, dst_dir, name, i) ==
    LET candidate == dst_dir \o <<name \o <<"_">> \o IntToStr(i)>>
    IN  IF Exists(f, candidate) THEN ProbeDir(f, dst_dir, name, i + 1) ELSE candidate

\* lines 136-141: the path move_dir_with_unique moves to
dir_candidate(f, src, dst_dir, ensure_unique) ==
    LET candidate == dst_dir \o <<Name(src)>>
    IN  IF ensure_unique /\ Exists(f, candidate)
        THEN ProbeDir(f, dst_dir, Name(src), 1)
        ELSE candidate

move_dir_with_unique(f, t, src, dst_dir, ensure_unique, io) ==
    LET mk == IF io = "mkdir" THEN [ok |-> FALSE, fs |-> f, made |-> {}] ELSE Mkdir(f, dst_dir, t)
        candidate == dir_candidate(mk.fs, src, dst_dir, ensure_unique)
        mv == IF io = "move" THEN [ok |-> FALSE, fs |-> mk.fs] ELSE ShutilMove(mk.fs, src, candidate, t)
    IN  IF ~mk.ok THEN [ok |-> FALSE, fs |-> f, made |-> {}, target |-> <<>>]
        ELSE [ok |-> mv.ok, fs |-> mv.fs, made |-> mk.made, target |-> candidate]

\* build_unmanaged_exclude_paths without its first loop (unmanaged_dirs_exclude)
build_unmanaged_exclude_paths_unnamed(c, now, wd) ==
    LET dests == {expand_path(c.rules[i].to_dir, now) :
                     i \in {j \in 1..Len(c.rules) : c.rules[j].to_dir # <<>>}}
        tops == {SubSeq(p, 1, Len(wd) + 1) : p \in {q \in dests : IsAncestor(wd, q)}}
    IN  tops \cup {expand_path(c.unmanaged_dir_target, now)}

build_unmanaged_exclude_paths(c, now, wd) ==
    LET named == {wd \o PathOf(c.unmanaged_dirs_exclude[i]) : i \in 1..Len(c.unmanaged_dirs_exclude)}
        dests == {expand_path(c.rules[i].to_dir, now) :
                     i \in {j \in 1..Len(c.rules) : c.rules[j].to_dir # <<>>}}
        tops == {SubSeq(p, 1, Len(wd) + 1) : p \in {q \in dests : IsAncestor(wd, q)}}
    IN  named \cup tops \cup {expand_path(c.unmanaged_dir_target, now)}

skip_by_excludes(dr, exclude_paths) ==
    \E ep \in exclude_paths : dr = ep \/ IsAncestor(dr, ep) \/ IsAncestor(ep, dr)

\* -------------------------------------------------------- process_once

\* what one iteration of a loop of process_once did
Outcome(op, f, mk, src, dst_dir, want, target, uniq, io) ==
    [op |-> op, fs |-> f, made |-> mk, src |-> src, dst_dir |-> dst_dir,
     want |-> want, target |-> target, uniq |-> uniq, io |-> io]

NoPath == <<>>

\* the file loop body with the "continue" of the dry branch lost
file_iteration_falls_through(c, f, t, now, wd, name, dry, io) ==
    LET p == wd \o <<name>>
        rule == match_rule(name, c.rules)
        out_dir == expand_path(rule[1].to_dir, now)
        tname == build_target_name(name, rule[1], now, 0)
        mv == move_with_unique(f, t, p, out_dir, tname, rule[1].ensure_unique, io)
    IN  IF ~is_candidate_file(f, t, p, c.min_age_sec, c.ignore_ext, c.ignore_names)
        THEN Outcome("skip", f, {}, p, NoPath, NoPath, NoPath, FALSE, "ok")
        ELSE IF rule = <<>>
        THEN Outcome("no_rule", f, {}, p, NoPath, NoPath, NoPath, FALSE, "ok")
        ELSE IF ~mv.ok
        THEN Outcome("raise_file", mv.fs, mv.made, p, out_dir, out_dir \o <<tname>>, NoPath,
                     rule[1].ensure_unique, IF io = "touch" THEN "ok" ELSE io)
        ELSE Outcome(IF dry THEN "dry_file" ELSE "move_file",
                     mark_managed_dir(mv.fs, t, out_dir, c.managed_marker, io),
                     mv.made, p, out_dir, out_dir \o <<tname>>, mv.target,
                     rule[1].ensure_unique, io)

\* lines 196-211: the body of "for p in sorted(watch_dir.iterdir())"
file_iteration(c, f, t, now, wd, name, dry, io) ==
    LET p == wd \o <<name>>
        rule == match_rule(name, c.rules)
        out_dir == expand_path(rule[1].to_dir, now)
        tname == build_target_name(name, rule[1], now, 0)
        mv == move_with_unique(f, t, p, out_dir, tname, rule[1].ensure_unique, io)
    IN  IF ~is_candidate_file(f, t, p, c.min_age_sec, c.ignore_ext, c.ignore_names)
        THEN Outcome("skip", f, {}, p, NoPath, NoPath, NoPath, FALSE, "ok")
        ELSE IF rule = <<>>
        THEN Outcome("no_rule", f, {}, p, NoPath, NoPath, NoPath, FALSE, "ok")
        ELSE IF dry
        THEN Outcome("dry_file", f, {}, p, out_dir, out_dir \o <<tname>>, NoPath,
                     rule[1].ensure_unique, "ok")
        ELSE IF ~mv.ok
        THEN Outcome("raise_file", mv.fs, mv.made, p, out_dir, out_dir \o <<tname>>, NoPath,
                     rule[1].ensure_unique, IF io = "touch" THEN "ok" ELSE io)
        ELSE Outcome("move_file", mark_managed_dir(mv.fs, t, out_dir, c.managed_marker, io),
                     mv.made, p, out_dir, out_dir \o <<tname>>, mv.target,
                     rule[1].ensure_unique, io)

\* the directory loop without lines 233-236 (ignore_names, hidden names)
dir_iteration_any_name(c, f, t, now, wd, name, dry, io) ==
    LET d == wd \o <<name>>
        exclude_paths == build_unmanaged_exclude_paths(c, now, wd)
        target_root == expand_path(c.unmanaged_dir_target, now)
        mv == move_dir_with_unique(f, t, d, target_root, TRUE, io)
    IN  IF ~is_candidate_dir(f, t, d, c.min_age_sec)
        THEN Outcome("skip", f, {}, d, NoPath, NoPath, NoPath, FALSE, "ok")
        ELSE IF is_managed_dir(f, d, c.managed_marker)
        THEN Outcome("skip_managed", f, {}, d, NoPath, NoPath, NoPath, FALSE, "ok")
        ELSE IF skip_by_excludes(d, exclude_paths)
        THEN Outcome("skip_excluded", f, {}, d, NoPath, NoPath, NoPath, FALSE, "ok")
        ELSE IF dry
        THEN Outcome("dry_dir", f, {}, d, target_root, target_root \o <<name>>, NoPath, TRUE, "ok")
        ELSE IF ~mv.ok
        THEN Outcome("raise_dir", mv.fs, mv.made, d, target_root, target_root \o <<name>>, NoPath,
                     TRUE, IF io = "touch" THEN "ok" ELSE io)
        ELSE Outcome("move_dir", mv.fs, mv.made, d, target_root, target_root \o <<name>>,
                     mv.target, TRUE, IF io = "touch" THEN "ok" ELSE io)

\* lines 230-249: the body of the second "for d in sorted(watch_dir.iterdir())"
dir_iteration(c, f, t, now, wd, name, dry, io) ==
    LET d == wd \o <<name>>
        exclude_paths == build_unmanaged_exclude_paths(c, now, wd)
        target_root == expand_path(c.unmanaged_dir_target, now)
        mv == move_dir_with_unique(f, t, d, target_root, TRUE, io)
    IN  IF ~is_candidate_dir(f, t, d, c.min_age_sec)
        THEN Outcome("skip", f, {}, d, NoPath, NoPath, NoPath, FALSE, "ok")
        ELSE IF InSeq(name, c.ignore_names)
        THEN Outcome("skip_ignored", f, {}, d, NoPath, NoPath, NoPath, FALSE, "ok")
        ELSE IF StartsWith(name, <<".">>)
        THEN Outcome("skip_hidden", f, {}, d, NoPath, NoPath, NoPath, FALSE, "ok")
        ELSE IF is_managed_dir(f, d, c.managed_marker)
        THEN Outcome("skip_managed", f, {}, d, NoPath, NoPath, NoPath, FALSE, "ok")
        ELSE IF skip_by_excludes(d, exclude_paths)
        THEN Outcome("skip_excluded", f, {}, d, NoPath, NoPath, NoPath, FALSE, "ok")
        ELSE IF dry
        THEN Outcome("dry_dir", f, {}, d, target_root, target_root \o <<name>>, NoPath, TRUE, "ok")
        ELSE IF ~mv.ok
        THEN Outcome("raise_dir", mv.fs, mv.made, d, target_root, target_root \o <<name>>, NoPath,
                     TRUE, IF io = "touch" THEN "ok" ELSE io)
        ELSE Outcome("move_dir", mv.fs, mv.made, d, target_root, target_root \o <<name>>,
                     mv.target, TRUE, IF io = "touch" THEN "ok" ELSE io)

Counted(o) == o.op \in {"dry_file", "move_file", "dry_dir", "move_dir"}

\* ------------------------------------------------- configurations, inputs

Marker == <<".", "d", "o", "r", "g", "_", "m", "a", "n", "a", "g", "e", "d">>
TStem == <<"{", "s", "t", "e", "m", "}">>
TYear == <<"{", "Y", "Y", "Y", "Y", "}">>
ExtTxt == <<"t", "x", "t">>
ExtPdf == <<"p", "d", "f">>

\* rule lists of the configurations explored
RulesCollide ==      \* every text file to w/o/n.txt, made unique
    << Rule(<<"t">>, <<ExtTxt>>, <<>>, <<>>, FALSE, <<"w", "/", "o">>, <<"n">>, TRUE) >>
RulesDated ==        \* text files to w/{YYYY}/d under their own name
    << Rule(<<"t">>, <<ExtTxt>>, <<>>, <<>>, FALSE, <<"w", "/">> \o TYear \o <<"/", "d">>, <<>>, TRUE) >>
RulesInPlace ==      \* text files renamed b.txt inside the watch directory, overwriting
    << Rule(<<"t">>, <<>>, <<<<"t", "e", "x", "t", "/">>>>, <<>>, FALSE, <<"w">>, <<"b">>, FALSE) >>
RulesMixed ==        \* a* and b.??? made unique, all others overwriting, same target
    << Rule(<<"a">>, <<>>, <<>>, <<<<"a", "*">>, <<"b", ".", "?", "?", "?">>>>, FALSE,
            <<"w", "/", "o">>, <<"n">>, TRUE),
       Rule(<<"z">>, <<>>, <<>>, <<>>, TRUE, <<"w", "/", "o">>, <<"n">>, FALSE) >>
RulesAllHere ==      \* everything stays in the watch directory, made unique
    << Rule(<<"h">>, <<>>, <<>>, <<>>, TRUE, <<"w">>, <<>>, TRUE) >>
RulesOut ==          \* the scenario of the specification, destination outside
    << Rule(<<"p">>, <<ExtPdf, ExtTxt>>, <<>>, <<>>, FALSE, <<"o", "/">> \o TYear,
            TStem \o <<"_", "{", "d", "a", "t", "e", "}">>, TRUE) >>

Config(rules, collect, target, exclude, ignore_names) ==
    [watch_dir |-> <<"w">>, interval_sec |-> 1, min_age_sec |-> 1,
     ignore_ext |-> <<<<".", "T", "M", "P">>>>, ignore_names |-> ignore_names,
     managed_marker |-> Marker, collect_unmanaged_dirs |-> collect,
     unmanaged_dirs_exclude |-> exclude, unmanaged_dir_target |-> target, rules |-> rules]

ArchiveOut == <<"a", "r">>
ArchiveIn == <<"w", "/", "f", "/">> \o TYear
ArchiveHome == <<"~", "/", "a", "r", "/">> \o TYear

Configs ==
    { Config(RulesCollide, TRUE, ArchiveOut, <<<<"k">>>>, <<>>),
      Config(RulesDated, TRUE, ArchiveIn, <<>>, <<<<"k">>>>),
      Config(RulesInPlace, TRUE, ArchiveOut, <<>>, <<>>),
      Config(RulesMixed, FALSE, ArchiveOut, <<>>, <<>>),
      Config(RulesAllHere, TRUE, ArchiveHome, <<<<"k">>>>, <<>>),
      Config(RulesOut, FALSE, ArchiveOut, <<>>, <<>>),
      Config(RulesOut, TRUE, <<"w">>, <<>>, <<>>) }

\* the file systems a run may start from; bm is the mtime of w/b.txt
Root == <<>>
W == <<<<"w">>>>
FileA == <<"a", ".", "t", "x", "t">>
FileB == <<"b", ".", "t", "x", "t">>
FileC == <<"c", ".", "t", "m", "p">>
FileN == <<"n", ".", "t", "x", "t">>

SnapMissing == (Root :> Node("dir", 0, 0))

SnapFull(bm) ==
    (Root :> Node("dir", 0, 0)) @@ (W :> Node("dir", 0, 0))
    @@ (W \o <<FileA>> :> Node("file", 1, 0))
    @@ (W \o <<FileB>> :> Node("file", 2, bm))
    @@ (W \o <<FileC>> :> Node("file", 3, 0))
    @@ (W \o <<<<"m">>>> :> Node("dir", 4, 0))
    @@ (W \o <<<<"k">>>> :> Node("dir", 5, 0))
    @@ (W \o <<<<"o">>>> :> Node("dir", 6, 0))
    @@ (W \o <<<<"o">>, FileN>> :> Node("file", 7, 0))
    @@ (<<ArchiveOut>> :> Node("dir", 0, 0))
    @@ (<<ArchiveOut, <<"m">>>> :> Node("dir", 8, 0))

\* a watch directory whose destinations do not exist yet, with a hidden
\* directory, a directory marked by an earlier run and one just created
SnapFresh ==
    (Root :> Node("dir", 0, 0)) @@ (W :> Node("dir", 0, 0))
    @@ (W \o <<FileA>> :> Node("file", 1, 0))
    @@ (W \o <<FileB>> :> Node("file", 2, 0))
    @@ (W \o <<FileN>> :> Node("file", 7, 0))
    @@ (W \o <<<<"m">>>> :> Node("dir", 4, 0))
    @@ (W \o <<<<".", "g">>>> :> Node("dir", 9, 0))
    @@ (W \o <<<<"p">>>> :> Node("dir", 10, 0))
    @@ (W \o <<<<"p">>, Marker>> :> Node("file", 0, 0))
    @@ (W \o <<<<"y">>>> :> Node("dir", 11, 1))

Snapshots == {SnapMissing, SnapFull(0), SnapFull(1), SnapFresh}

\* argparse: --once, --watch, --dry
ArgSets == [once : BOOLEAN, watch : BOOLEAN, dry : BOOLEAN]

\* bounds of the exploration
MaxPasses == 2
MaxFaults == 1

\* ------------------------------------------------------------- the run

harness == <<fn, inp, out>>

NoOp == [op |-> "none", src |-> NoPath, dst_dir |-> NoPath, want |-> NoPath,
         target |-> NoPath, uniq |-> FALSE, io |-> "ok"]

LastOf(o) == [op |-> o.op, src |-> o.src, dst_dir |-> o.dst_dir, want |-> o.want,
              target |-> o.target, uniq |-> o.uniq, io |-> o.io]

\* the locals of process_once; snap is the file system the pass started from
\* and moves the moves it has made, kept for the statements about a pass
NewPass(now, dry, listing, f) ==
    [now |-> now, dry |-> dry, listing |-> listing, idx |-> 1, processed |-> 0,
     snap |-> f, moves |-> <<>>]

Init ==
    /\ cfg \in Configs
    /\ fs \in Snapshots
    /\ clock = 1
    /\ args \in ArgSets
    /\ pc = "start"
    /\ pass = NewPass(0, FALSE, <<>>, fs)
    /\ ret = -1
    /\ last = NoOp
    /\ made = {}
    /\ passes = 0
    /\ faults = 0
    /\ fn = "none" /\ inp = <<>> /\ out = <<>>

WatchDir(t) == expand_path(cfg.watch_dir, Now(t))

\* lines 279-287: the mode main runs in, and the dry flag it hands down
Mode(a) == IF a.once THEN "once" ELSE IF a.watch THEN "watch" ELSE "default"
DryOf(a) == IF a.once THEN a.dry ELSE FALSE

\* where control goes when process_once returns, and when it raises
AfterReturn == IF Mode(args) = "watch" THEN "sleep" ELSE "exit"
AfterRaiseUncaught == "crash"
AfterRaise == IF Mode(args) = "watch" THEN "sleep" ELSE "crash"

\* main, lines 265-287: parse the arguments, load the configuration, dispatch
main ==
    /\ pc = "start"
    /\ pc' = "call"
    /\ UNCHANGED <<cfg, fs, clock, args, pass, ret, last, made, passes, faults, harness>>

\* process_once without lines 184-186: iterdir raises on the missing directory
process_once_begin_unchecked ==
    /\ pc = "call"
    /\ passes < MaxPasses
    /\ passes' = passes + 1
    /\ IF ~Exists(fs, WatchDir(clock))
       THEN /\ pass' = NewPass(clock, DryOf(args), <<>>, fs)
            /\ last' = [NoOp EXCEPT !.op = "raise_file"]
            /\ pc' = AfterRaise
            /\ UNCHANGED ret
       ELSE /\ pass' = NewPass(clock, DryOf(args), Sorted(ChildNames(fs, WatchDir(clock))), fs)
            /\ last' = [NoOp EXCEPT !.op = "begin"]
            /\ pc' = "files"
            /\ UNCHANGED ret
    /\ UNCHANGED <<cfg, fs, clock, args, made, faults, harness>>

\* process_once, lines 182-196: now, the watch directory, the listing
process_once_begin ==
    /\ pc = "call"
    /\ passes < MaxPasses
    /\ passes' = passes + 1
    /\ IF ~Exists(fs, WatchDir(clock))
       THEN /\ pass' = NewPass(clock, DryOf(args), <<>>, fs)
            /\ ret' = 0
            /\ last' = [NoOp EXCEPT !.op = "return"]
            /\ pc' = AfterReturn
       ELSE /\ pass' = NewPass(clock, DryOf(args), Sorted(ChildNames(fs, WatchDir(clock))), fs)
            /\ last' = [NoOp EXCEPT !.op = "begin"]
            /\ pc' = "files"
            /\ UNCHANGED ret
    /\ UNCHANGED <<cfg, fs, clock, args, made, faults, harness>>

\* the effect of one loop iteration with outcome o
Iterate(o) ==
    /\ fs' = o.fs
    /\ made' = made \cup o.made
    /\ last' = LastOf(o)
    /\ faults' = IF o.io = "ok" THEN faults ELSE faults + 1
    /\ IF o.op \in {"raise_file", "raise_dir"}
       THEN /\ pc' = AfterRaise
            /\ UNCHANGED pass
       ELSE /\ pass' = [pass EXCEPT
                          !.idx = @ + 1,
                          !.processed = IF Counted(o) THEN @ + 1 ELSE @,
                          !.moves = IF o.op \in {"move_file", "move_dir"}
                                    THEN Append(@, [op |-> o.op, src |-> o.src, want |-> o.want,
                                                    target |-> o.target, uniq |-> o.uniq,
                                                    id |-> fs[o.src].id])
                                    ELSE @]
            /\ UNCHANGED pc
    /\ UNCHANGED <<cfg, clock, args, ret, passes, harness>>

\* one iteration of the file loop, lines 196-211
process_once_file ==
    /\ pc = "files"
    /\ pass.idx <= Len(pass.listing)
    /\ \E io \in {"ok", "mkdir", "move", "touch"} :
          LET o == file_iteration(cfg, fs, clock, Now(pass.now), WatchDir(pass.now),
                                  pass.listing[pass.idx], pass.dry, io)
          IN  /\ o.io = io
              /\ io # "ok" => faults < MaxFaults
              /\ Iterate(o)

\* the file loop is over, lines 213-230 (or line 251 when nothing is collected)
process_once_files_done ==
    /\ pc = "files"
    /\ pass.idx > Len(pass.listing)
    /\ IF cfg.collect_unmanaged_dirs
       THEN /\ pass' = [pass EXCEPT !.listing = Sorted(ChildNames(fs, WatchDir(pass.now))),
                                    !.idx = 1]
            /\ pc' = "dirs"
            /\ last' = [NoOp EXCEPT !.op = "collect"]
            /\ UNCHANGED ret
       ELSE /\ ret' = pass.processed
            /\ pc' = AfterReturn
            /\ last' = [NoOp EXCEPT !.op = "return"]
            /\ UNCHANGED pass
    /\ UNCHANGED <<cfg, fs, clock, args, made, passes, faults, harness>>

\* one iteration of the directory loop, lines 230-249
process_once_dir ==
    /\ pc = "dirs"
    /\ pass.idx <= Len(pass.listing)
    /\ \E io \in {"ok", "mkdir", "move"} :
          LET o == dir_iteration(cfg, fs, clock, Now(pass.now), WatchDir(pass.now),
                                 pass.listing[pass.idx], pass.dry, io)
          IN  /\ o.io = io
              /\ io # "ok" => faults < MaxFaults
              /\ Iterate(o)

\* return processed, line 251
process_once_return ==
    /\ pc = "dirs"
    /\ pass.idx > Len(pass.listing)
    /\ ret' = pass.processed
    /\ pc' = AfterReturn
    /\ last' = [NoOp EXCEPT !.op = "return"]
    /\ UNCHANGED <<cfg, fs, clock, args, pass, made, passes, faults, harness>>

\* watch_loop, lines 255-263: time.sleep(interval), then the next pass
watch_loop_sleep ==
    /\ pc = "sleep"
    /\ passes < MaxPasses
    /\ clock' = clock + Max(1, cfg.interval_sec)
    /\ pc' = "call"
    /\ UNCHANGED <<cfg, fs, args, pass, ret, last, made, passes, faults, harness>>

\* the environment between two passes: somebody creates the watch directory
\* that was missing, with a file in it
external_create ==
    /\ pc = "sleep"
    /\ ~Exists(fs, WatchDir(clock))
    /\ fs' = Touched(Put(fs, (WatchDir(clock) :> Node("dir", 0, clock))
                             @@ (WatchDir(clock) \o <<FileA>> :> Node("file", 1, clock))),
                     Parent(WatchDir(clock)), clock)
    /\ last' = [NoOp EXCEPT !.op = "external"]
    /\ UNCHANGED <<cfg, clock, args, pc, pass, ret, made, passes, faults, harness>>

Next ==
    \/ main
    \/ process_once_begin
    \/ process_once_file
    \/ process_once_files_done
    \/ process_once_dir
    \/ process_once_return
    \/ watch_loop_sleep
    \/ external_create

Spec == Init /\ [][Next]_vars

\* when the steps of process_once can be taken (the guards of the actions)
CanBegin == pc = "call" /\ passes < MaxPasses
CanIterate(at) == pc = at /\ pass.idx <= Len(pass.listing)
CanLeave(at) == pc = at /\ pass.idx > Len(pass.listing)

\* The program is one sequential thread: a statement that can run does run,
\* and time.sleep returns.  That is weak fairness of every action; for the
\* steps of process_once it is written out, []<>(not enabled) \/ []<>(taken),
\* with the action's guard for its enabling condition.
Scheduling ==
    /\ WF_vars(main)
    /\ WF_vars(watch_loop_sleep)
    /\ ([]<>(~CanBegin) \/ []<><<process_once_begin>>_vars)
    /\ ([]<>(~CanIterate("files")) \/ []<><<process_once_file>>_vars)
    /\ ([]<>(~CanLeave("files")) \/ []<><<process_once_files_done>>_vars)
    /\ ([]<>(~CanIterate("dirs")) \/ []<><<process_once_dir>>_vars)
    /\ ([]<>(~CanLeave("dirs")) \/ []<><<process_once_return>>_vars)

SpecFair == Init /\ [][Next]_vars /\ Scheduling

\* ------------------------------------- match_rule applied to drawn inputs

MaxRules == 2

MatchNames ==
    { FileA, <<"b", ".", "P", "D", "F">>, <<"c">>, <<"a", "b", ".", "z">>, <<"r", ".", "p", "d", "f">> }

MatchRules ==
    { Rule(<<"e">>, <<ExtPdf>>, <<>>, <<>>, FALSE, <<"o">>, <<>>, TRUE),
      Rule(<<"m">>, <<>>, <<<<"t", "e", "x", "t", "/">>>>, <<>>, FALSE, <<"o">>, <<>>, TRUE),
      Rule(<<"g">>, <<>>, <<>>, <<<<"a", "*">>, <<"?", ".", "p", "d", "f">>>>, FALSE, <<"o">>, <<>>, TRUE),
      Rule(<<"x">>, <<ExtTxt>>, <<<<"a", "p", "p">>>>, <<<<"c">>>>, FALSE, <<"o">>, <<>>, TRUE),
      Rule(<<"n">>, <<>>, <<>>, <<>>, FALSE, <<"o">>, <<>>, TRUE),
      Rule(<<"z">>, <<>>, <<>>, <<>>, TRUE, <<"o">>, <<>>, TRUE) }

Idle ==
    /\ cfg = Config(RulesOut, FALSE, ArchiveOut, <<>>, <<>>)
    /\ fs = SnapMissing
    /\ clock = 1
    /\ args = [once |-> TRUE, watch |-> FALSE, dry |-> TRUE]
    /\ pc = "harness"
    /\ pass = NewPass(0, FALSE, <<>>, SnapMissing)
    /\ ret = -1
    /\ last = NoOp
    /\ made = {}
    /\ passes = 0
    /\ faults = 0

InitMatch ==
    /\ Idle
    /\ fn = "input"
    /\ inp \in [name : MatchNames,
                rules : UNION {[1..n -> MatchRules] : n \in 0..MaxRules}]
    /\ out = <<>>

call_match_rule ==
    /\ fn = "input"
    /\ fn' = "match_rule"
    /\ out' = match_rule(inp.name, inp.rules)
    /\ UNCHANGED <<cfg, fs, clock, args, pc, pass, ret, last, made, passes, faults, inp>>

NextMatch == call_match_rule

SpecMatch == InitMatch /\ [][NextMatch]_vars

\* ------------------- build_target_name and expand_path on drawn inputs

MaxTick == 2

\* names a directory entry of the watch directory may have (POSIX)
SourceNames ==
    { FileA,
      <<"r", ".", "P", "D", "F">>,
      <<"n">>,
      <<".", "h">>,
      <<"a", "*", "b", ".", "t", "x", "t">>,
      <<"q", ".", "t", "?">>,
      <<"{", "d", "a", "t", "e", "}", ".", "t", "x", "t">>,
      <<"{", "e", "x", "t", "}", ".", "{", "t", "i", "m", "e", "}">> }

\* rename and to_dir templates of a configuration
Templates ==
    { <<>>,
      TStem,
      TStem \o <<"_", "{", "d", "a", "t", "e", "}">>,
      <<"{", "e", "x", "t", "}", "/", "{", "t", "i", "m", "e", "}", "?">>,
      <<"{", "c", "o", "u", "n", "t", "e", "r", "}", "x">>,
      <<"o", "/">> \o TYear \o <<"/", "{", "M", "M", "}", "{", "D", "D", "}">>,
      <<"~", "/", "{", "Y", "Y", "{", "M", "M", "}", "Y", "Y", "}">>,
      <<"$", "H", "/", "{", "d", "a", "t", "e", "}", "{", "t", "i", "m", "e", "}">> }

InitName ==
    /\ Idle
    /\ fn = "input"
    /\ inp \in [name : SourceNames, tmpl : Templates, t : 0..MaxTick]
    /\ out = <<>>

\* build_target_name(p, rule, now, 0), as line 203 calls it
call_build_target_name ==
    /\ fn = "input"
    /\ fn' = "build_target_name"
    /\ out' = build_target_name(inp.name,
                                Rule(<<"r">>, <<>>, <<>>, <<>>, TRUE, <<"o">>, inp.tmpl, TRUE),
                                Now(inp.t), 0)
    /\ UNCHANGED <<cfg, fs, clock, args, pc, pass, ret, last, made, passes, faults, inp>>

\* expand_path(template, now), as lines 183, 202 and 228 call it
call_expand_path ==
    /\ fn = "input"
    /\ fn' = "expand_path"
    /\ out' = expand_path(inp.tmpl, Now(inp.t))
    /\ UNCHANGED <<cfg, fs, clock, args, pc, pass, ret, last, made, passes, faults, inp>>

NextName == call_build_target_name \/ call_expand_path

SpecName == InitName /\ [][NextName]_vars

\* -------------------------------------- is_candidate_file on drawn inputs

MaxAge == 2

CandidatePaths ==
    { W \o <<FileA>>, W \o <<FileB>>, W \o <<FileC>>, W \o <<<<"m">>>>, W \o <<<<"z">>>> }

IgnoreExts == { <<>>, <<<<".", "T", "M", "P">>>>, <<<<"p", "d", "f">>, <<"X", "t">>>> }

IgnoreNames == { <<>>, <<FileA>>, <<<<"A", ".", "T", "X", "T">>, FileC>> }

\* gone: the path is deleted by somebody else between is_file() and stat()
InitCandidate ==
    /\ Idle
    /\ fn = "input"
    /\ inp \in [f : {SnapFull(0), SnapFull(1)}, gone : BOOLEAN, path : CandidatePaths,
                t : 0..MaxTick, min_age_sec : 0..MaxAge,
                ignore_ext : IgnoreExts, ignore_names : IgnoreNames]
    /\ out = <<>>

call_is_candidate_file ==
    /\ fn = "input"
    /\ fn' = "is_candidate_file"
    /\ out' = << is_candidate_file_stat(inp.f,
                                        IF inp.gone THEN Drop(inp.f, {inp.path}) ELSE inp.f,
                                        inp.t, inp.path, inp.min_age_sec,
                                        inp.ignore_ext, inp.ignore_names) >>
    /\ UNCHANGED <<cfg, fs, clock, args, pc, pass, ret, last, made, passes, faults, inp>>

NextCandidate == call_is_candidate_file

SpecCandidate == InitCandidate /\ [][NextCandidate]_vars

\* ------------------------------------------------------------ the claims

\* the name dst_dir gets for the i-th probe of a wanted name
C1_Suffixed(name, i, isFile) ==
    IF isFile
    THEN SplitExt(name).stem \o <<"_">> \o IntToStr(i) \o SplitExt(name).ext
    ELSE name \o <<"_">> \o IntToStr(i)

C1_Step ==
    /\ pc \in {"files", "dirs"}
    /\ pass'.idx = pass.idx + 1
    /\ last'.op \in {"move_file", "move_dir"}
    /\ last'.uniq

C1_Post ==
    LET o == last'
        d == o.dst_dir
        isFile == o.op = "move_file"
        taken(i) == Exists(fs, d \o <<C1_Suffixed(Name(o.want), i, isFile)>>)
    IN  /\ ~Exists(fs, o.target)
        /\ Exists(fs', o.target) /\ fs'[o.target].id = fs[o.src].id
        /\ IF ~Exists(fs, o.want)
           THEN o.target = o.want
           ELSE \E i \in 1..Cardinality(DOMAIN fs) :
                   /\ o.target = d \o <<C1_Suffixed(Name(o.want), i, isFile)>>
                   /\ \A j \in 1..(i - 1) : taken(j)
        /\ \A q \in DOMAIN fs :
              (IsAncestor(d, q) /\ q # o.src /\ ~IsAncestor(o.src, q))
                  => /\ Exists(fs', q)
                     /\ fs'[q].kind = fs[q].kind
                     /\ fs'[q].id = fs[q].id

\* C1: a move with ensure_unique=true (of a file by move_with_unique, of a
\* directory by move_dir_with_unique) goes to a path that did not exist: the
\* wanted name when it is free, else the wanted name with the smallest suffix
\* _i, i >= 1, that is unused (before the extension for a file); every other
\* entry of the destination directory is still there, the same entry.
C1_UniqueMoveReplacesNothing == [][C1_Step => C1_Post]_vars

\* a file moved with ensure_unique to n_2.txt, past n.txt and n_1.txt
C1_Witness ==
    /\ last.op = "move_file" /\ last.uniq
    /\ Name(last.target) = <<"n", "_", "2", ".", "t", "x", "t">>
    /\ Exists(fs, last.want)
    /\ Exists(fs, Parent(last.want) \o <<<<"n", "_", "1", ".", "t", "x", "t">>>>)

\* does some predicate of rule r hold of the file name (the statement's terms)
C2_Holds(name, r) ==
    LET ext == LStrip(Lower(Suffix(name)), ".")
        mime == GuessType(name)
    IN  \/ \E i \in 1..Len(r.match_ext) : r.match_ext[i] = ext
        \/ mime # <<>> /\ \E i \in 1..Len(r.match_mime) : StartsWith(mime, r.match_mime[i])
        \/ \E i \in 1..Len(r.match_glob) : FnMatch(name, r.match_glob[i])
        \/ r.match_all

\* C2: match_rule returns the rule of the smallest index one of whose
\* predicates holds of the file (extension, MIME prefix, glob, match_all), and
\* None when no rule has a predicate that holds.
C2_FirstMatchingRuleWins ==
    fn = "match_rule" =>
        LET H == {i \in 1..Len(inp.rules) : C2_Holds(inp.name, inp.rules[i])}
        IN  IF H = {} THEN out = <<>>
            ELSE out = <<inp.rules[CHOOSE i \in H : \A j \in H : i <= j]>>

\* an earlier rule won over a later, different rule that holds as well
C2_Witness ==
    /\ fn = "match_rule"
    /\ Len(inp.rules) = 2
    /\ inp.rules[1] # inp.rules[2]
    /\ C2_Holds(inp.name, inp.rules[1]) /\ C2_Holds(inp.name, inp.rules[2])
    /\ inp.rules[2].match_ext # <<>> /\ inp.rules[1].match_all
    /\ out = <<inp.rules[1]>>

\* the entry at position j of the listing is a file the file loop would move
C3_Pending(j) ==
    file_iteration(cfg, fs, clock, Now(pass.now), WatchDir(pass.now),
                   pass.listing[j], TRUE, "ok").op = "dry_file"

\* C3: a failure while moving one entry affects only that entry: the pass
\* does not end after a failed move while a later entry of the listing is
\* still a file it would move.
C3_FailureSparesLaterEntries ==
    ~(/\ last.op = "raise_file"
      /\ pc \notin {"files", "dirs"}
      /\ \E j \in (pass.idx + 1)..Len(pass.listing) : C3_Pending(j))

\* C4: a pass run with dry=True leaves the file system as it found it: no
\* directory created, nothing moved, no marker written.
C4_DryPassChangesNothing == pass.dry => (fs = pass.snap /\ made = {})

\* a dry pass has returned having counted files and a directory
C4_Witness ==
    /\ pass.dry /\ pc = "exit" /\ last.op = "return"
    /\ ret = 3 /\ cfg.collect_unmanaged_dirs

\* what a dry pass returns when run on file system f at clock t
C5_DryCount(f, t) ==
    LET wd == WatchDir(t)
        files == {n \in ChildNames(f, wd) :
                     file_iteration(cfg, f, t, Now(t), wd, n, TRUE, "ok").op = "dry_file"}
        dirs == {n \in ChildNames(f, wd) :
                    dir_iteration(cfg, f, t, Now(t), wd, n, TRUE, "ok").op = "dry_dir"}
    IN  IF ~Exists(f, wd) THEN 0
        ELSE Cardinality(files) + (IF cfg.collect_unmanaged_dirs THEN Cardinality(dirs) ELSE 0)

\* C5: the count a real pass returns equals the count a dry pass returns from
\* the file system and the time the real pass started from.
C5_DryCountEqualsRealCount ==
    (last.op = "return" /\ ~pass.dry) => ret = C5_DryCount(pass.snap, pass.now)

\* C6: with --dry on the command line, in whatever mode, no pass moves a file
\* or a directory, creates a directory or creates a marker file.
C6_DryFlagSuppressesMoves ==
    args.dry => (last.op \notin {"move_file", "move_dir"} /\ made = {})

\* C7: a subdirectory of the watch directory that the organizer created (a
\* rule destination or an ancestor of one) is never moved by the sweep of
\* unmanaged directories, in the pass that created it or in a later one;
\* stated for the runs in which no call of the operating system has failed.
C7_OwnDirectoriesNeverSwept == ~(faults = 0 /\ last.op = "move_dir" /\ last.src \in made)

\* is directory d equal to, an ancestor of or a descendant of path e
C8_Related(d, e) == d = e \/ IsAncestor(d, e) \/ IsAncestor(e, d)

\* the exclusion set of the pass, in the statement's terms
C8_Exclusions ==
    LET wd == WatchDir(pass.now)
        dest(i) == expand_path(cfg.rules[i].to_dir, Now(pass.now))
    IN  {wd \o PathOf(cfg.unmanaged_dirs_exclude[i]) : i \in 1..Len(cfg.unmanaged_dirs_exclude)}
        \cup {q \in {wd \o <<n>> : n \in ChildNames(pass.snap, wd) \cup ChildNames(fs, wd)
                                       \cup {Name(last.src)}} :
                 \E i \in 1..Len(cfg.rules) : q = dest(i) \/ IsAncestor(q, dest(i))}
        \cup {expand_path(cfg.unmanaged_dir_target, Now(pass.now))}

\* C8: the directory phase moves no subdirectory of the watch directory that
\* is equal to, an ancestor of or a descendant of a path of the exclusion set
\* (configured names, top-level directory of each rule destination, archive
\* root).
C8_ExcludedNeverSwept ==
    last.op = "move_dir" => \A e \in C8_Exclusions : ~C8_Related(last.src, e)

\* the directory phase met an aged, unmarked, visible directory that is
\* excluded, and left it where it was
C8_Witness ==
    /\ last.op = "skip_excluded"
    /\ \E e \in C8_Exclusions : C8_Related(last.src, e)
    /\ IsDir(fs, last.src)

C9_MarkerPath == last.dst_dir \o <<cfg.managed_marker>>

\* C9 as stated: after every successful real move of a file the destination
\* directory holds the marker file before the next entry is processed.
C9_MarkerAfterEveryMove == last.op = "move_file" => Exists(fs, C9_MarkerPath)

\* C9 as amended: after every successful real move of a file the destination
\* directory holds the marker file before the next entry is processed, unless
\* the creation of the marker itself failed (mark_managed_dir swallows that).
C9_MarkerUnlessTouchFails ==
    (last.op = "move_file" /\ last.io # "touch") => IsFile(fs, C9_MarkerPath)

\* a second file moved into a directory the same pass had marked already
C9_Witness ==
    /\ last.op = "move_file" /\ faults = 0
    /\ Len(pass.moves) >= 2
    /\ Parent(pass.moves[Len(pass.moves) - 1].want) = last.dst_dir
    /\ IsFile(fs, C9_MarkerPath)

\* moves i < j of the pass are of files that resolved to the same wanted path
\* under ensure_unique=true
C10_SameTarget(i, j) ==
    /\ i < j
    /\ pass.moves[i].op = "move_file" /\ pass.moves[j].op = "move_file"
    /\ pass.moves[i].uniq /\ pass.moves[j].uniq
    /\ pass.moves[i].want = pass.moves[j].want

\* the suffix a move got: 0 for the wanted name itself, i for _i
C10_Index(m) ==
    IF m.target = m.want THEN 0
    ELSE CHOOSE i \in 1..(Len(pass.listing) + Cardinality(DOMAIN fs)) :
            m.target = Parent(m.want) \o <<C1_Suffixed(Name(m.want), i, TRUE)>>

\* the file of move k is where the move put it
C10_Held(k) ==
    /\ Exists(fs, pass.moves[k].target)
    /\ fs[pass.moves[k].target].id = pass.moves[k].id

\* a later move of the pass, made with ensure_unique=false, went onto the
\* path move k had taken
C10_Overwritten(k) ==
    \E l \in (k + 1)..Len(pass.moves) :
        ~pass.moves[l].uniq /\ pass.moves[l].target = pass.moves[k].target

C11_WatchLoopNeverStops ==
    /\ [](Mode(args) = "watch" => pc \notin {"exit", "crash"})
    /\ []((Mode(args) = "watch" /\ last.op \in {"return", "raise_file", "raise_dir"})
              => pc \in {"sleep", "call"})
    /\ \A n \in 1..(MaxPasses - 1) :
          (Mode(args) = "watch" /\ passes = n /\ pc = "sleep") ~> (passes = n + 1)

\* the second pass of a watch run has begun after a first pass that raised:
\* its one failed call left the file system as it was, so it was not the
\* swallowed failure of a marker
C11_Witness ==
    /\ Mode(args) = "watch" /\ passes = 2 /\ last.op = "begin"
    /\ faults = 1 /\ fs \in Snapshots /\ clock = 2

\* the lower-cased extension of a source name, without its dot
C12_Ext(name) == LStrip(Lower(Suffix(name)), ".")

\* C12: the name build_target_name returns ends with "." and the lower-cased
\* source extension whenever that extension is not empty, and the whole name,
\* the appended extension included, holds none of < > : " / \ | ? *.
C12_TargetNameIsClean ==
    fn = "build_target_name" =>
        /\ C12_Ext(inp.name) # <<>> => EndsWith(out, <<".">> \o C12_Ext(inp.name))
        /\ \A i \in 1..Len(out) : out[i] \notin BadChars

\* the placeholders build_target_name recognises, and those of expand_path
C13_NameTable(name, dt) ==
    << <<TStem, Stem(name)>>,
       <<<<"{", "e", "x", "t", "}">>, C12_Ext(name)>>,
       <<<<"{", "d", "a", "t", "e", "}">>, StrfDate(dt)>>,
       <<<<"{", "t", "i", "m", "e", "}">>, StrfTime(dt)>>,
       <<<<"{", "c", "o", "u", "n", "t", "e", "r", "}">>, <<>> >> >>

C13_PathTable(dt) ==
    << <<TYear, dt.Y>>,
       <<<<"{", "M", "M", "}">>, dt.M>>,
       <<<<"{", "D", "D", "}">>, dt.D>>,
       <<<<"{", "d", "a", "t", "e", "}">>, StrfDate(dt)>>,
       <<<<"{", "t", "i", "m", "e", "}">>, StrfTime(dt)>> >>

\* one simultaneous substitution: the template is read once from the left,
\* a placeholder found is replaced, and what was inserted is not read again
RECURSIVE C13_Simultaneous(_, _)
C13_Simultaneous(s, table) ==
    IF s = <<>> THEN <<>>
    ELSE IF \E i \in 1..Len(table) : StartsWith(s, table[i][1])
    THEN LET i == CHOOSE k \in 1..Len(table) : StartsWith(s, table[k][1])
         IN  table[i][2] \o C13_Simultaneous(SubSeq(s, Len(table[i][1]) + 1, Len(s)), table)
    ELSE <<Head(s)>> \o C13_Simultaneous(Tail(s), table)

\* what a single simultaneous substitution makes of the inputs
C13_NameOnce ==
    LET tmpl == IF inp.tmpl # <<>> THEN inp.tmpl ELSE TStem
        name == C13_Simultaneous(tmpl, C13_NameTable(inp.name, Now(inp.t)))
        clean == [i \in 1..Len(name) |-> IF name[i] \in BadChars THEN "_" ELSE name[i]]
    IN  clean \o (IF C12_Ext(inp.name) # <<>> THEN <<".">> \o C12_Ext(inp.name) ELSE <<>>)

C13_PathOnce ==
    PathOf(ExpandUser(ExpandVars(C13_Simultaneous(inp.tmpl, C13_PathTable(Now(inp.t))))))

\* C13: the expansion of placeholders in build_target_name and expand_path is
\* not recursive: the result is that of one simultaneous substitution of the
\* placeholders of the template; text inserted for one placeholder is never
\* expanded itself.
C13_ExpansionIsNotRecursive ==
    /\ fn = "build_target_name" => out = C13_NameOnce
    /\ fn = "expand_path" => out = C13_PathOnce

\* the marker files of file system f
C14_Markers(f) == {q \in DOMAIN f : IsFile(f, q) /\ Name(q) = cfg.managed_marker}

\* C14: a marker file that exists is never deleted, moved, renamed or
\* overwritten: every step leaves it at its path, and the file phase never
\* takes a marker file or a dot-file for a candidate.
C14_MarkersStay ==
    [][/\ \A q \in C14_Markers(fs) : q \in C14_Markers(fs')
       /\ last'.op \in {"dry_file", "move_file"} => ~StartsWith(Name(last'.src), <<".">>)]_vars

\* C15: a pass that finds the watch directory missing returns 0, raises
\* nothing and changes nothing in the file system; the test is made at the
\* start of every pass, so a pass that finds the directory and something to
\* process in it does process it.
C15_MissingWatchDirIsSkipped ==
    /\ (passes > 0 /\ ~Exists(pass.snap, WatchDir(pass.now))) =>
          /\ pc \in {"sleep", "call", "exit"}
          /\ ret = 0 /\ pass.moves = <<>>
          /\ fs = pass.snap \/ last.op = "external"
    /\ (last.op = "return" /\ ~pass.dry /\ C5_DryCount(pass.snap, pass.now) > 0) => ret > 0

\* the first pass found no watch directory and returned 0; the directory
\* appeared during the sleep and the second pass moved the file in it
C15_Witness ==
    /\ passes = 2 /\ ret = 0 /\ last.op = "move_file"
    /\ last.src = WatchDir(pass.now) \o <<FileA>>
    /\ Exists(pass.snap, WatchDir(pass.now))

\* the files the watch directory held when the pass started
C16_Files == {q \in DOMAIN pass.snap : IsFile(pass.snap, q) /\ Parent(q) = WatchDir(pass.now)}

\* younger than min_age_sec when the pass started
C16_Young(q) == pass.now - pass.snap[q].mtime < cfg.min_age_sec

\* old enough when the pass started, not ignored, and matched by a rule
C16_Due(q) ==
    /\ is_candidate_file(pass.snap, pass.now, q, cfg.min_age_sec, cfg.ignore_ext, cfg.ignore_names)
    /\ match_rule(Name(q), cfg.rules) # <<>>

\* C16: a file younger than min_age_sec is left untouched by the pass, and it
\* is moved in the first pass at which its age has reached min_age_sec when
\* it is not ignored and matches a rule: a real pass that has ended has moved
\* every such file, unless the move of that very file failed.
C16_YoungFilesWaitThenMove ==
    /\ passes > 0 =>
          \A q \in C16_Files : C16_Young(q) => (Exists(fs, q) /\ fs[q] = pass.snap[q])
    /\ (last.op \in {"return", "raise_file", "raise_dir"} /\ ~pass.dry) =>
          \A q \in C16_Files :
              C16_Due(q) => \/ \E k \in 1..Len(pass.moves) : pass.moves[k].src = q
                            \/ last.src = q

\* what the statement of C17 says of the drawn input
C17_Accepts ==
    LET name == Name(inp.path)
    IN  /\ inp.path \in DOMAIN inp.f /\ inp.f[inp.path].kind = "file"
        /\ ~inp.gone
        /\ \A i \in 1..Len(inp.ignore_names) : inp.ignore_names[i] # name
        /\ \A i \in 1..Len(inp.ignore_ext) :
              LET ie == Lower(inp.ignore_ext[i])
              IN  ~(Len(ie) <= Len(name)
                    /\ \A k \in 1..Len(ie) : LowerChar(name[Len(name) - Len(ie) + k]) = ie[k])
        /\ inp.t - inp.f[inp.path].mtime >= inp.min_age_sec

\* C17: is_candidate_file returns true exactly for an existing regular file
\* whose name is not in ignore_names, whose whole name does not end, case
\* ignored, with an ignore_ext entry, and whose age is at least min_age_sec;
\* a file gone before the stat is rejected, with no error.
C17_CandidateFileExactly ==
    fn = "is_candidate_file" => out = <<C17_Accepts>>

\* a file whose age is exactly min_age_sec, accepted
C17_Witness ==
    /\ fn = "is_candidate_file" /\ out = <<TRUE>>
    /\ inp.min_age_sec > 0
    /\ inp.t - inp.f[inp.path].mtime = inp.min_age_sec

\* the archive root of the pass
C18_ArchiveRoot == expand_path(cfg.unmanaged_dir_target, Now(pass.now))

\* the exclusion paths of the pass: the configured names, the top-level
\* directory of every rule destination under the watch directory, the
\* archive root
C18_Exclusions ==
    LET wd == WatchDir(pass.now)
        dest(i) == expand_path(cfg.rules[i].to_dir, Now(pass.now))
    IN  {wd \o PathOf(cfg.unmanaged_dirs_exclude[i]) : i \in 1..Len(cfg.unmanaged_dirs_exclude)}
        \cup {SubSeq(dest(i), 1, Len(wd) + 1) :
                 i \in {k \in 1..Len(cfg.rules) : IsAncestor(wd, dest(k))}}
        \cup {C18_ArchiveRoot}

\* the directory d is one the statement says is relocated
C18_Eligible(d) ==
    /\ cfg.collect_unmanaged_dirs
    /\ d \in DOMAIN fs /\ fs[d].kind = "dir"
    /\ clock - fs[d].mtime >= cfg.min_age_sec
    /\ \A i \in 1..Len(cfg.ignore_names) : cfg.ignore_names[i] # Name(d)
    /\ Name(d)[1] # "."
    /\ d \o <<cfg.managed_marker>> \notin DOMAIN fs
    /\ \A e \in C18_Exclusions : ~(d = e \/ IsAncestor(d, e) \/ IsAncestor(e, d))

\* the directory loop of a real pass examines its next entry
C18_Examines == pc = "dirs" /\ pass.idx <= Len(pass.listing) /\ ~pass.dry

C18_Examined ==
    LET d == WatchDir(pass.now) \o <<pass.listing[pass.idx]>>
    IN  IF C18_Eligible(d)
        THEN \/ last'.op = "raise_dir"
             \/ /\ last'.op = "move_dir" /\ last'.src = d
                /\ Parent(last'.target) = C18_ArchiveRoot
                /\ d \notin DOMAIN fs'
                /\ last'.target \in DOMAIN fs' /\ fs'[last'.target].id = fs[d].id
        ELSE fs' = fs /\ last'.op \notin {"move_dir", "raise_dir"}

C19_CandidateAgain(k) ==
    LET q == pass.moves[k].target
    IN  /\ pass.moves[k].op = "move_file"
        /\ Parent(q) = WatchDir(clock)
        /\ IsFile(fs, q) /\ fs[q].id = pass.moves[k].id
        /\ is_candidate_file(fs, clock, q, cfg.min_age_sec, cfg.ignore_ext, cfg.ignore_names)
        /\ match_rule(Name(q), cfg.rules) # <<>>

\* C19: under repeated real passes with nothing else writing, the system comes
\* to rest: a file the file phase has moved is not a candidate of a later
\* pass, also when a rule's to_dir is the watch directory itself.  Stated
\* where the next pass is called: no file moved by the pass before is a
\* candidate then.
C19_MovedFilesAreDone ==
    (pc = "call" /\ passes >= 1 /\ last.op = "return" /\ ~pass.dry) =>
        \A k \in 1..Len(pass.moves) : ~C19_CandidateAgain(k)

\* the regular files of file system f that are not marker files
C20_UserFiles(f) == {q \in DOMAIN f : IsFile(f, q) /\ Name(q) # cfg.managed_marker}

\* C20: a pass in which no call fails destroys no user data, whatever the
\* rules (ensure_unique=false, to_dir inside the watch directory): it leaves
\* as many regular non-marker files as it found, and every file it found is
\* afterwards at exactly one path.
C20_PassKeepsEveryFile ==
    (last.op = "return" /\ ~pass.dry /\ faults = 0) =>
        /\ Cardinality(C20_UserFiles(fs)) = Cardinality(C20_UserFiles(pass.snap))
        /\ \A q \in C20_UserFiles(pass.snap) :
              Cardinality({r \in C20_UserFiles(fs) : fs[r].id = pass.snap[q].id}) = 1

====
